---- MODULE Spec2Model ----
(***************************************************************************)
(* A model of src/educhain_setup.py: class EduChainSetup (client set-up,   *)
(* MCQ and lesson-plan generation with their fallbacks, display, save to   *)
(* JSON), class MockEduChain and main().                                    *)
(*                                                                         *)
(* Python values are tagged records [t, v]:                                *)
(*   "none"  None                 "str"  a str         "int"  an int       *)
(*   "list"  a list (v: sequence of values)                                *)
(*   "dict"  a dict (v: sequence of <<key, value>> pairs, insertion order) *)
(*   "obj"   an instance of a class of the remote library (v: the          *)
(*           protocols it supports and the items its iteration yields)     *)
(* Exceptions are the subclasses of Exception; KeyboardInterrupt and       *)
(* SystemExit are outside the model.                                       *)
(***************************************************************************)
EXTENDS Integers, Sequences, FiniteSets, TLC

VARIABLES
    pc,              \* where main() or the calling harness stands
    educhain,        \* self.educhain: "none", "real" or "mock"
    mcq_content,     \* main's local mcq_content
    lesson_content,  \* main's local lesson_content
    call,            \* the last generation call: method, arguments, what the remote
                     \* service did, and what the file system did to its save
    ret,             \* what that call returned
    files,           \* the file system, by file name
    log,             \* the records written to the logger
    stdout,          \* the lines printed
    steps            \* history: the steps main() has taken, in order

vars == <<pc, educhain, mcq_content, lesson_content, call, ret, files, log, stdout, steps>>

----------------------------------------------------------------------------
(* Bounds of the inputs the harness draws.                                 *)
MaxNum == 7

----------------------------------------------------------------------------
(* Python values.                                                          *)
None == [t |-> "none", v |-> 0]
S(s) == [t |-> "str", v |-> s]
I(n) == [t |-> "int", v |-> n]
L(seq) == [t |-> "list", v |-> seq]
D(pairs) == [t |-> "dict", v |-> pairs]
O(cls, dump, sized, iterable, items) ==
    [t |-> "obj", v |-> [cls |-> cls, dump |-> dump, sized |-> sized,
                         iterable |-> iterable, items |-> items]]

IsStr(x) == x.t = "str"
IsDict(x) == x.t = "dict"
IsList(x) == x.t = "list"

(* Equality of two keys: a str key and an int key are never equal.         *)
KeyEq(a, b) == a.t = b.t /\ a.v = b.v

(* dict.get(key, default) with a str key.                                  *)
Get(d, key, default) ==
    LET hits == {i \in 1..Len(d.v) : KeyEq(d.v[i][1], S(key))}
    IN  IF hits = {} THEN default ELSE d.v[CHOOSE i \in hits : TRUE][2]

(* key in dict                                                             *)
Has(d, key) == \E i \in 1..Len(d.v) : KeyEq(d.v[i][1], S(key))

(* The keys of a dict, in insertion order.                                 *)
Keys(d) == [i \in 1..Len(d.v) |-> d.v[i][1]]

PyMin(a, b) == IF a <= b THEN a ELSE b

(* seq[:stop] of Python: a negative stop counts from the end, and the      *)
(* result is clamped to the sequence.                                      *)
SliceTo(seq, stop) ==
    LET n == Len(seq)
        s == IF stop < 0 THEN stop + n ELSE stop
        e == IF s < 0 THEN 0 ELSE IF s > n THEN n ELSE s
    IN  SubSeq(seq, 1, e)

FallbackNote == "Generated using fallback content due to API limitations"

----------------------------------------------------------------------------
(* _generate_fallback_mcqs                                                 *)
Question(q, opts, answer, expl) ==
    D(<< <<S("question"), S(q)>>,
         <<S("options"), L([i \in 1..Len(opts) |-> S(opts[i])])>>,
         <<S("correct_answer"), S(answer)>>,
         <<S("explanation"), S(expl)>> >>)

python_questions ==
    << Question("What is the correct way to create a list in Python?",
                <<"my_list = []", "my_list = ()", "my_list = {}", "my_list = <>">>,
                "A", "Square brackets [] are used to create lists in Python."),
       Question("Which keyword is used to define a function in Python?",
                <<"function", "def", "define", "func">>,
                "B", "The 'def' keyword is used to define functions in Python."),
       Question("What does the 'len()' function do in Python?",
                <<"Returns the length of an object", "Returns the last element",
                  "Returns the first element", "Returns the type of object">>,
                "A", "The len() function returns the number of items in an object."),
       Question("Which operator is used for floor division in Python?",
                <<"/", "//", "%", "**">>,
                "B", "The '//' operator performs floor division in Python."),
       Question("What is the correct way to comment a single line in Python?",
                <<"// This is a comment", "/* This is a comment */",
                  "# This is a comment", "<!-- This is a comment -->">>,
                "C", "The '#' symbol is used for single-line comments in Python.") >>

(* A variant that forgets the slice. *)
SelectQuestionsAll(num_questions) == python_questions

SelectQuestions(num_questions) ==
    SliceTo(python_questions, PyMin(num_questions, Len(python_questions)))

_generate_fallback_mcqs(topic, num_questions, now) ==
    LET selected_questions == SelectQuestions(num_questions)
    IN  D(<< <<S("content_type"), S("multiple_choice_questions")>>,
             <<S("topic"), S(topic)>>,
             <<S("num_questions"), I(Len(selected_questions))>>,
             <<S("difficulty"), S("medium")>>,
             <<S("generated_at"), S(now)>>,
             <<S("questions"), L(selected_questions)>>,
             <<S("note"), S(FallbackNote)>> >>)

----------------------------------------------------------------------------
(* _generate_fallback_lesson_plan                                          *)
StrList(seq) == L([i \in 1..Len(seq) |-> S(seq[i])])

Phase(duration, activities) ==
    D(<< <<S("duration"), S(duration)>>, <<S("activities"), StrList(activities)>> >>)

(* A variant that gives the main content the duration asked for. *)
LessonStructureScaled(subject, duration) ==
    D(<< <<S("introduction"),
           Phase("10 minutes", <<"Review previous lesson",
                                 "Introduce " \o subject \o " concepts",
                                 "Set learning expectations">>)>>,
         <<S("main_content"),
           Phase(duration, <<"Explain core " \o subject \o " principles",
                             "Demonstrate with examples",
                             "Hands-on practice",
                             "Interactive exercises">>)>>,
         <<S("conclusion"),
           Phase("10 minutes", <<"Summarize key concepts",
                                 "Address questions",
                                 "Assign practice work",
                                 "Preview next lesson">>)>> >>)

LessonStructure(subject, duration) ==
    D(<< <<S("introduction"),
           Phase("10 minutes", <<"Review previous lesson",
                                 "Introduce " \o subject \o " concepts",
                                 "Set learning expectations">>)>>,
         <<S("main_content"),
           Phase("25 minutes", <<"Explain core " \o subject \o " principles",
                                 "Demonstrate with examples",
                                 "Hands-on practice",
                                 "Interactive exercises">>)>>,
         <<S("conclusion"),
           Phase("10 minutes", <<"Summarize key concepts",
                                 "Address questions",
                                 "Assign practice work",
                                 "Preview next lesson">>)>> >>)

FallbackLessonBody(subject, duration) ==
    D(<< <<S("title"), S("Introduction to " \o subject)>>,
         <<S("overview"), S("This lesson introduces students to fundamental concepts in "
                            \o subject \o ".")>>,
         <<S("learning_objectives"),
           StrList(<<"Understand basic concepts of " \o subject,
                     "Apply " \o subject \o " principles in practical scenarios",
                     "Develop problem-solving skills",
                     "Build foundation for advanced topics">>)>>,
         <<S("materials_needed"),
           StrList(<<"Computer with Python installed", "Text editor or IDE",
                     "Practice exercises", "Reference materials">>)>>,
         <<S("lesson_structure"), LessonStructure(subject, duration)>>,
         <<S("assessment"),
           D(<< <<S("formative"), S("Questions and discussions during lesson")>>,
                <<S("summative"), S("Practice exercises and quiz")>>,
                <<S("homework"), S("Complete " \o subject \o " practice problems")>> >>)>>,
         <<S("differentiation"),
           D(<< <<S("for_beginners"), S("Provide additional examples and support")>>,
                <<S("for_advanced"), S("Offer extension activities and challenges")>> >>)>> >>)

_generate_fallback_lesson_plan(subject, duration, grade_level, now) ==
    D(<< <<S("content_type"), S("lesson_plan")>>,
         <<S("subject"), S(subject)>>,
         <<S("duration"), S(duration)>>,
         <<S("grade_level"), S(grade_level)>>,
         <<S("generated_at"), S(now)>>,
         <<S("lesson_plan"), FallbackLessonBody(subject, duration)>>,
         <<S("note"), S(FallbackNote)>> >>)

----------------------------------------------------------------------------
(* The remote library.  A call either raises or returns a value; the       *)
(* shapes cover what the code's post-processing, display and save          *)
(* distinguish.                                                            *)
Raises(kind) == [raises |-> TRUE, kind |-> kind, value |-> None]
Returns(value) == [raises |-> FALSE, kind |-> "", value |-> value]

(* The first k fixed questions stand for k questions of a remote answer.   *)
SomeQuestions(k) == SubSeq(python_questions, 1, PyMin(k, Len(python_questions)))

(* What qna_engine.generate_questions(topic, num, difficulty_level) can do *)
(* when asked for num questions.                                           *)
McqBehaviours(num) ==
    << Raises("GenerationError"),
       (* a plain list of question dicts: no model_dump_json *)
       Returns(L(SomeQuestions(num))),
       (* a pydantic question list: model_dump_json, no __len__ *)
       Returns(O("MCQList", TRUE, FALSE, TRUE,
                 << <<S("questions"), L(SomeQuestions(num))>> >>)),
       (* a sized model whose iteration yields the question dicts asked for *)
       Returns(O("QuestionList", TRUE, TRUE, TRUE, SomeQuestions(num))),
       (* the same, with one question fewer than asked for *)
       Returns(O("QuestionList", TRUE, TRUE, TRUE, SomeQuestions(num - 1))),
       (* a sized model whose iteration yields (field, value) tuples *)
       Returns(O("SizedModel", TRUE, TRUE, TRUE,
                 << L(<<S("questions"), L(SomeQuestions(num))>>) >>)),
       (* a sized model that cannot be iterated *)
       Returns(O("SizedOpaque", TRUE, TRUE, FALSE, <<>>)) >>

(* What content_engine.generate_lesson_plan(...) can do.                   *)
LessonBehaviours(subject) ==
    << Raises("GenerationError"),
       (* a pydantic lesson plan *)
       Returns(O("LessonPlan", TRUE, FALSE, TRUE, << <<S("title"), S(subject)>> >>)),
       (* a dict of JSON-like sections *)
       Returns(D(<< <<S("title"), S("Lesson on " \o subject)>>,
                    <<S("objectives"), StrList(<<"Understanding the process">>)>>,
                    <<S("structure"), D(<< <<S("main_activity"), S("practice")>> >>)>> >>)),
       (* a dict keyed by section number *)
       Returns(D(<< <<I(1), S("Introduction")>>, <<I(2), S("Practice")>> >>)),
       (* plain text *)
       Returns(S("Lesson on " \o subject)) >>

(* MockEduChain has neither qna_engine nor content_engine: reading either  *)
(* attribute raises AttributeError before any call is made.                *)
MockEduChain == [qna_engine |-> FALSE, content_engine |-> FALSE]

(* self.educhain.qna_engine.generate_questions(...)                        *)
CallQnaEngine(client, num, b) ==
    IF client = "mock" /\ ~MockEduChain.qna_engine
    THEN Raises("AttributeError")
    ELSE McqBehaviours(num)[b]

(* self.educhain.content_engine.generate_lesson_plan(...)                  *)
CallContentEngine(client, subject, b) ==
    IF client = "mock" /\ ~MockEduChain.content_engine
    THEN Raises("AttributeError")
    ELSE LessonBehaviours(subject)[b]

----------------------------------------------------------------------------
(* A handler's result: whether an exception left it, what it returned,     *)
(* the records it logged and the lines it printed.                         *)
Result(raised, value, logged, printed) ==
    [raised |-> raised, value |-> value, log |-> logged, out |-> printed]

HasModelDumpJson(x) == x.t = "obj" /\ x.v.dump

(* len(x) is defined for the built-in containers and for sized objects.    *)
HasLen(x) == x.t \in {"str", "list", "dict"} \/ (x.t = "obj" /\ x.v.sized)

(* Why the post-processing of lines 80-91 raises on mcqs, "" when it does  *)
(* not: line 80 needs model_dump_json, line 91 needs len().                *)
McqPostProcessError(mcqs) ==
    IF ~HasModelDumpJson(mcqs) THEN "AttributeError"
    ELSE IF ~HasLen(mcqs) THEN "TypeError"
    ELSE ""

McqEnvelope(topic, num_questions, now, mcqs) ==
    D(<< <<S("content_type"), S("multiple_choice_questions")>>,
         <<S("topic"), S(topic)>>,
         <<S("num_questions"), I(num_questions)>>,
         <<S("difficulty"), S("medium")>>,
         <<S("generated_at"), S(now)>>,
         <<S("questions"), mcqs>> >>)

(* A variant whose except clause lets the exception go on. *)
GenerateMcqReraise(client, topic, num_questions, b, now) ==
    LET r == CallQnaEngine(client, num_questions, b)
        err == IF r.raises THEN r.kind ELSE McqPostProcessError(r.value)
    IN  IF err # ""
        THEN Result(TRUE, None,
                    <<"INFO Generating MCQs", "ERROR Error generating MCQs: " \o err>>,
                    <<>>)
        ELSE Result(FALSE, McqEnvelope(topic, num_questions, now, r.value),
                    <<"INFO Generating MCQs", "INFO Successfully generated MCQs">>,
                    << <<"model_dump_json", r.value>> >>)

(* generate_mcq_content(topic, num_questions); b is what the remote call   *)
(* does, now what datetime.now().isoformat() returns.                      *)
generate_mcq_content(client, topic, num_questions, b, now) ==
    LET r == CallQnaEngine(client, num_questions, b)
        err == IF r.raises THEN r.kind ELSE McqPostProcessError(r.value)
        printed == IF ~r.raises /\ HasModelDumpJson(r.value)
                   THEN << <<"model_dump_json", r.value>> >> ELSE <<>>
    IN  IF err # ""
        THEN Result(FALSE, _generate_fallback_mcqs(topic, num_questions, now),
                    <<"INFO Generating MCQs", "ERROR Error generating MCQs: " \o err,
                      "INFO Generating fallback MCQs">>,
                    printed)
        ELSE Result(FALSE, McqEnvelope(topic, num_questions, now, r.value),
                    <<"INFO Generating MCQs", "INFO Successfully generated MCQs">>,
                    printed)

LessonEnvelope(subject, duration, grade_level, now, lesson_plan) ==
    D(<< <<S("content_type"), S("lesson_plan")>>,
         <<S("subject"), S(subject)>>,
         <<S("duration"), S(duration)>>,
         <<S("grade_level"), S(grade_level)>>,
         <<S("generated_at"), S(now)>>,
         <<S("lesson_plan"), lesson_plan>> >>)

(* generate_lesson_plan(subject, duration, grade_level)                    *)
generate_lesson_plan(client, subject, duration, grade_level, b, now) ==
    LET r == CallContentEngine(client, subject, b)
    IN  IF r.raises
        THEN Result(FALSE,
                    _generate_fallback_lesson_plan(subject, duration, grade_level, now),
                    <<"INFO Generating lesson plan",
                      "ERROR Error generating lesson plan: " \o r.kind,
                      "INFO Generating fallback lesson plan">>,
                    <<>>)
        ELSE Result(FALSE, LessonEnvelope(subject, duration, grade_level, now, r.value),
                    <<"INFO Generating lesson plan",
                      "INFO Successfully generated lesson plan">>,
                    <<>>)

----------------------------------------------------------------------------
(* setup_educhain: initOk is whether ChatOpenAI, LLMConfig and Educhain    *)
(* all construct without raising.                                          *)
(* A variant without the except clause. *)
SetupEduchainNoCatch(initOk) ==
    IF initOk
    THEN Result(FALSE, "real", <<"INFO EduChain initialized successfully">>, <<>>)
    ELSE Result(TRUE, "none", <<>>, <<>>)

setup_educhain(initOk) ==
    IF initOk
    THEN Result(FALSE, "real", <<"INFO EduChain initialized successfully">>, <<>>)
    ELSE Result(FALSE, "mock",
                <<"ERROR Failed to initialize EduChain",
                  "INFO Using mock EduChain for demonstration">>, <<>>)

----------------------------------------------------------------------------
(* json.dump(content, f, indent=2, ensure_ascii=False).  The text written  *)
(* is modelled as its JSON tokens (white space carries no meaning and      *)
(* ensure_ascii=False writes every character as itself).  The encoder      *)
(* writes chunk by chunk, so what precedes a value it cannot encode is     *)
(* already in the file when TypeError is raised.                           *)
Punct(c) == [k |-> "p", v |-> c]
StrTok(x) == [k |-> "s", v |-> x]
NumTok(n) == [k |-> "n", v |-> ToString(n)]
NullTok == [k |-> "null", v |-> "null"]

IsPunct(tok, c) == tok.k = "p" /\ tok.v = c

Encoded(ok, toks) == [ok |-> ok, toks |-> toks]

(* A dict key: str as it is, int and None coerced to a string, anything    *)
(* else is a TypeError.                                                    *)
KeyEncodable(key) == key.t \in {"str", "int", "none"}
KeyToken(key) ==
    CASE key.t = "str" -> StrTok(key.v)
      [] key.t = "int" -> StrTok(ToString(key.v))
      [] key.t = "none" -> StrTok("null")

RECURSIVE Dump(_)
RECURSIVE DumpItems(_, _)
RECURSIVE DumpPairs(_, _)

(* the items of a list from index i on, each after its separator *)
DumpItems(items, i) ==
    IF i > Len(items) THEN Encoded(TRUE, <<>>)
    ELSE LET sep == IF i = 1 THEN <<>> ELSE <<Punct(",")>>
             one == Dump(items[i])
         IN  IF ~one.ok THEN Encoded(FALSE, sep \o one.toks)
             ELSE LET rest == DumpItems(items, i + 1)
                  IN  Encoded(rest.ok, sep \o one.toks \o rest.toks)

(* the key: value pairs of a dict from index i on *)
DumpPairs(pairs, i) ==
    IF i > Len(pairs) THEN Encoded(TRUE, <<>>)
    ELSE IF ~KeyEncodable(pairs[i][1]) THEN Encoded(FALSE, <<>>)
    ELSE LET sep == IF i = 1 THEN <<>> ELSE <<Punct(",")>>
             head == sep \o <<KeyToken(pairs[i][1]), Punct(":")>>
             one == Dump(pairs[i][2])
         IN  IF ~one.ok THEN Encoded(FALSE, head \o one.toks)
             ELSE LET rest == DumpPairs(pairs, i + 1)
                  IN  Encoded(rest.ok, head \o one.toks \o rest.toks)

Dump(x) ==
    CASE x.t = "str" -> Encoded(TRUE, <<StrTok(x.v)>>)
      [] x.t = "int" -> Encoded(TRUE, <<NumTok(x.v)>>)
      [] x.t = "none" -> Encoded(TRUE, <<NullTok>>)
      [] x.t = "list" ->
            LET body == DumpItems(x.v, 1)
            IN  IF body.ok THEN Encoded(TRUE, <<Punct("[")>> \o body.toks \o <<Punct("]")>>)
                ELSE Encoded(FALSE, <<Punct("[")>> \o body.toks)
      [] x.t = "dict" ->
            LET body == DumpPairs(x.v, 1)
            IN  IF body.ok THEN Encoded(TRUE, <<Punct("{")>> \o body.toks \o <<Punct("}")>>)
                ELSE Encoded(FALSE, <<Punct("{")>> \o body.toks)
      [] x.t = "obj" -> Encoded(FALSE, <<>>)

(* A file: whether it exists and the tokens it holds.                      *)
NoFile == [exists |-> FALSE, toks |-> <<>>]
FileOf(toks) == [exists |-> TRUE, toks |-> toks]

(* What the file system does to a save: the open and every write succeed,  *)
(* the open fails, or a write fails after none or half of the text.        *)
IoBehaviours == <<"ok", "open_fails", "write_fails_at_start", "write_fails_midway">>

(* The result's value is the file after the call.                          *)
(* A variant without the except clause. *)
SaveNoCatch(content, old, io) ==
    LET e == Dump(content)
    IN  IF io = "ok" /\ e.ok
        THEN Result(FALSE, FileOf(e.toks), <<"INFO Content saved">>, <<>>)
        ELSE Result(TRUE, old, <<>>, <<>>)

(* save_content_to_file(content, filename); old is the file before.        *)
save_content_to_file(content, old, io) ==
    LET e == Dump(content)
        half == SubSeq(e.toks, 1, Len(e.toks) \div 2)
    IN  CASE io = "open_fails" ->
               Result(FALSE, old, <<"ERROR Error saving content to file">>, <<>>)
          [] io = "write_fails_at_start" ->
               Result(FALSE, FileOf(<<>>), <<"ERROR Error saving content to file">>, <<>>)
          [] io = "write_fails_midway" ->
               Result(FALSE, FileOf(half), <<"ERROR Error saving content to file">>, <<>>)
          [] io = "ok" ->
               IF e.ok
               THEN Result(FALSE, FileOf(e.toks), <<"INFO Content saved">>, <<>>)
               ELSE Result(FALSE, FileOf(e.toks),
                           <<"ERROR Error saving content to file">>, <<>>)

----------------------------------------------------------------------------
(* display_content, _display_mcqs, _display_lesson_plan.  A printed line   *)
(* is the pair of its fixed text and the value formatted into it.          *)
Line(text, value) == <<text, value>>

Printed(raised, lines) == [raised |-> raised, out |-> lines]

(* iter(x): the built-in containers and iterable objects; a dict yields    *)
(* its keys.                                                               *)
Iterable(x) == x.t \in {"list", "dict"} \/ (x.t = "obj" /\ x.v.iterable)
Items(x) ==
    CASE x.t = "list" -> x.v
      [] x.t = "dict" -> Keys(x)
      [] x.t = "obj" -> x.v.items

Letters == <<"A", "B", "C", "D", "E", "F", "G", "H">>
(* chr(65 + j) *)
Chr65(j) == Letters[j + 1]

OptionLines(options) ==
    [j \in 1..Len(options) |-> Line("   " \o Chr65(j - 1) \o ". ", options[j])]

(* One pass of the loop of lines 326-335 over a question that has get().   *)
QuestionLines(i, question) ==
    LET options == Get(question, "options", L(<<>>))
        head == << Line("Question " \o ToString(i) \o ":", None),
                   Line("Q: ", Get(question, "question", S("No question text"))) >>
    IN  IF ~Iterable(options) THEN Printed(TRUE, head)
        ELSE Printed(FALSE,
                head \o OptionLines(Items(options)) \o
                << Line("Correct Answer: ", Get(question, "correct_answer", S("N/A"))),
                   Line("Explanation: ",
                        Get(question, "explanation", S("No explanation"))) >>)

RECURSIVE DisplayQuestionsFrom(_, _)
DisplayQuestionsFrom(questions, i) ==
    IF i > Len(questions) THEN Printed(FALSE, <<>>)
    ELSE IF ~IsDict(questions[i])
         THEN Printed(TRUE, << Line("Question " \o ToString(i) \o ":", None) >>)
    ELSE LET one == QuestionLines(i, questions[i])
         IN  IF one.raised THEN one
             ELSE LET rest == DisplayQuestionsFrom(questions, i + 1)
                  IN  Printed(rest.raised, one.out \o rest.out)

McqHeader(mcq_data) ==
    << Line("Topic: ", Get(mcq_data, "topic", S("N/A"))),
       Line("Number of Questions: ", Get(mcq_data, "num_questions", S("N/A"))),
       Line("Difficulty: ", Get(mcq_data, "difficulty", S("N/A"))),
       Line("Generated at: ", Get(mcq_data, "generated_at", S("N/A"))) >>
    \o (IF Has(mcq_data, "note") THEN << Line("Note: ", Get(mcq_data, "note", None)) >>
        ELSE <<>>)
    \o << Line("QUESTIONS:", None) >>

_display_mcqs(mcq_data) ==
    LET questions == Get(mcq_data, "questions", L(<<>>))
    IN  IF ~Iterable(questions) THEN Printed(TRUE, McqHeader(mcq_data))
        ELSE LET body == DisplayQuestionsFrom(Items(questions), 1)
             IN  Printed(body.raised, McqHeader(mcq_data) \o body.out)

(* The loop of lines 360-366 over the items of a nested dict.              *)
RECURSIVE SubSectionsFrom(_, _)
SubSectionsFrom(pairs, i) ==
    IF i > Len(pairs) THEN Printed(FALSE, <<>>)
    ELSE IF ~IsStr(pairs[i][1]) THEN Printed(TRUE, <<>>)
    ELSE LET subvalue == pairs[i][2]
             one == << Line("  title: ", pairs[i][1]) >> \o
                    (IF IsList(subvalue)
                     THEN [k \in 1..Len(subvalue.v) |-> Line("    * ", subvalue.v[k])]
                     ELSE << Line("    ", subvalue) >>)
             rest == SubSectionsFrom(pairs, i + 1)
         IN  Printed(rest.raised, one \o rest.out)

(* The loop of lines 354-368 over the items of the lesson plan.            *)
RECURSIVE SectionsFrom(_, _)
SectionsFrom(pairs, i) ==
    IF i > Len(pairs) THEN Printed(FALSE, <<>>)
    ELSE IF ~IsStr(pairs[i][1]) THEN Printed(TRUE, <<>>)
    ELSE LET value == pairs[i][2]
             head == << Line("upper: ", pairs[i][1]) >>
             one == IF IsList(value)
                    THEN Printed(FALSE, [k \in 1..Len(value.v) |-> Line("  * ", value.v[k])])
                    ELSE IF IsDict(value) THEN SubSectionsFrom(value.v, 1)
                    ELSE Printed(FALSE, << Line("  ", value) >>)
         IN  IF one.raised THEN Printed(TRUE, head \o one.out)
             ELSE LET rest == SectionsFrom(pairs, i + 1)
                  IN  Printed(rest.raised, head \o one.out \o rest.out)

LessonHeader(lesson_data) ==
    << Line("Subject: ", Get(lesson_data, "subject", S("N/A"))),
       Line("Duration: ", Get(lesson_data, "duration", S("N/A"))),
       Line("Grade Level: ", Get(lesson_data, "grade_level", S("N/A"))),
       Line("Generated at: ", Get(lesson_data, "generated_at", S("N/A"))) >>
    \o (IF Has(lesson_data, "note")
        THEN << Line("Note: ", Get(lesson_data, "note", None)) >> ELSE <<>>)
    \o << Line("LESSON PLAN:", None) >>

_display_lesson_plan(lesson_data) ==
    LET lesson_plan == Get(lesson_data, "lesson_plan", D(<<>>))
    IN  IF IsDict(lesson_plan)
        THEN LET body == SectionsFrom(lesson_plan.v, 1)
             IN  Printed(body.raised, LessonHeader(lesson_data) \o body.out)
        ELSE Printed(FALSE, LessonHeader(lesson_data) \o << Line("", lesson_plan) >>)

display_content(content) ==
    LET content_type == Get(content, "content_type", S("unknown"))
        banner == << Line("GENERATED CONTENT: ", content_type) >>
        body == IF content_type.v = "multiple_choice_questions" THEN _display_mcqs(content)
                ELSE IF content_type.v = "lesson_plan" THEN _display_lesson_plan(content)
                ELSE Printed(FALSE, << Line("json.dumps", content) >>)
    IN  Printed(body.raised, banner \o body.out)

----------------------------------------------------------------------------
(* The state machine.                                                      *)
Topics == {"Python Programming Basics", "Algebra"}
Durations == {"45 minutes", "90 minutes"}
GradeLevels == {"beginner", "advanced"}
Timestamps == {"2025-01-01T09:00:00", "2025-01-01T09:00:01"}
FileNames == {"sample_mcqs.json", "sample_lesson_plan.json"}
Nums == (0 - MaxNum)..MaxNum

NoCall == [op |-> "", topic |-> "", num |-> 0, duration |-> "", grade_level |-> "",
           remote |-> Raises(""), io |-> "", path |-> ""]

Logged(r, text) == \E i \in 1..Len(r.log) : r.log[i] = text

InitCommon ==
    /\ educhain = "none"
    /\ mcq_content = None
    /\ lesson_content = None
    /\ call = NoCall
    /\ ret = None
    /\ files = [f \in FileNames |-> NoFile]
    /\ log = <<>>
    /\ stdout = <<>>
    /\ steps = <<>>

(*------------------------------ main() ----------------------------------*)
Init == pc = "start" /\ InitCommon

(* lines 385-389: the banner and EduChainSetup() *)
MainConstruct ==
    /\ pc = "start"
    /\ \E initOk \in BOOLEAN :
          LET r == setup_educhain(initOk)
          IN  /\ educhain' = r.value
              /\ log' = log \o r.log
              /\ pc' = IF r.raised THEN "crashed" ELSE "mcq_generate"
    /\ stdout' = stdout \o << Line("EduChain Setup and Content Generation Demo", None) >>
    /\ steps' = Append(steps, "construct")
    /\ UNCHANGED <<mcq_content, lesson_content, call, ret, files>>

(* lines 392-396 *)
MainGenerateMcq ==
    /\ pc = "mcq_generate"
    /\ \E b \in 1..Len(McqBehaviours(5)), now \in Timestamps :
          LET r == generate_mcq_content(educhain, "Python Programming Basics", 5, b, now)
          IN  /\ mcq_content' = r.value
              /\ ret' = r.value
              /\ call' = [NoCall EXCEPT !.op = "generate_mcq_content",
                                        !.topic = "Python Programming Basics", !.num = 5,
                                        !.remote = CallQnaEngine(educhain, 5, b)]
              /\ log' = log \o r.log
              /\ stdout' = stdout
                    \o << Line("1. Generating Multiple Choice Questions...", None) >>
                    \o r.out
              /\ pc' = IF r.raised THEN "crashed" ELSE "mcq_display"
              /\ steps' = steps \o <<"mcq_attempt">> \o
                    (IF Logged(r, "INFO Generating fallback MCQs")
                     THEN <<"mcq_fallback">> ELSE <<>>)
    /\ UNCHANGED <<educhain, lesson_content, files>>

(* line 399 *)
MainDisplayMcq ==
    /\ pc = "mcq_display"
    /\ LET r == display_content(mcq_content)
       IN  /\ stdout' = stdout \o r.out
           /\ pc' = IF r.raised THEN "crashed" ELSE "mcq_save"
    /\ steps' = Append(steps, "mcq_display")
    /\ UNCHANGED <<educhain, mcq_content, lesson_content, call, ret, files, log>>

(* line 402 *)
MainSaveMcq ==
    /\ pc = "mcq_save"
    /\ \E k \in 1..Len(IoBehaviours) :
          LET r == save_content_to_file(mcq_content, files["sample_mcqs.json"],
                                        IoBehaviours[k])
          IN  /\ files' = [files EXCEPT !["sample_mcqs.json"] = r.value]
              /\ call' = [call EXCEPT !.io = IoBehaviours[k], !.path = "sample_mcqs.json"]
              /\ log' = log \o r.log
              /\ pc' = IF r.raised THEN "crashed" ELSE "lesson_generate"
    /\ steps' = Append(steps, "mcq_save")
    /\ UNCHANGED <<educhain, mcq_content, lesson_content, ret, stdout>>

(* lines 405-410 *)
MainGenerateLesson ==
    /\ pc = "lesson_generate"
    /\ \E b \in 1..Len(LessonBehaviours("Python Programming Basics")),
          now \in Timestamps :
          LET r == generate_lesson_plan(educhain, "Python Programming Basics",
                                        "45 minutes", "beginner", b, now)
          IN  /\ lesson_content' = r.value
              /\ ret' = r.value
              /\ call' = [NoCall EXCEPT !.op = "generate_lesson_plan",
                                        !.topic = "Python Programming Basics",
                                        !.duration = "45 minutes",
                                        !.grade_level = "beginner",
                                        !.remote = CallContentEngine(
                                            educhain, "Python Programming Basics", b)]
              /\ log' = log \o r.log
              /\ stdout' = stdout \o << Line("2. Generating Lesson Plan...", None) >>
                    \o r.out
              /\ pc' = IF r.raised THEN "crashed" ELSE "lesson_display"
              /\ steps' = steps \o <<"lesson_attempt">> \o
                    (IF Logged(r, "INFO Generating fallback lesson plan")
                     THEN <<"lesson_fallback">> ELSE <<>>)
    /\ UNCHANGED <<educhain, mcq_content, files>>

(* line 413 *)
MainDisplayLesson ==
    /\ pc = "lesson_display"
    /\ LET r == display_content(lesson_content)
       IN  /\ stdout' = stdout \o r.out
           /\ pc' = IF r.raised THEN "crashed" ELSE "lesson_save"
    /\ steps' = Append(steps, "lesson_display")
    /\ UNCHANGED <<educhain, mcq_content, lesson_content, call, ret, files, log>>

(* line 416 *)
MainSaveLesson ==
    /\ pc = "lesson_save"
    /\ \E k \in 1..Len(IoBehaviours) :
          LET r == save_content_to_file(lesson_content, files["sample_lesson_plan.json"],
                                        IoBehaviours[k])
          IN  /\ files' = [files EXCEPT !["sample_lesson_plan.json"] = r.value]
              /\ call' = [call EXCEPT !.io = IoBehaviours[k],
                                      !.path = "sample_lesson_plan.json"]
              /\ log' = log \o r.log
              /\ pc' = IF r.raised THEN "crashed" ELSE "report"
    /\ steps' = Append(steps, "lesson_save")
    /\ UNCHANGED <<educhain, mcq_content, lesson_content, ret, stdout>>

(* lines 418-426 *)
MainReport ==
    /\ pc = "report"
    /\ stdout' = stdout \o << Line("TASK 1 COMPLETED SUCCESSFULLY!", None) >>
    /\ pc' = "done"
    /\ steps' = Append(steps, "report")
    /\ UNCHANGED <<educhain, mcq_content, lesson_content, call, ret, files, log>>

Next ==
    \/ MainConstruct
    \/ MainGenerateMcq
    \/ MainDisplayMcq
    \/ MainSaveMcq
    \/ MainGenerateLesson
    \/ MainDisplayLesson
    \/ MainSaveLesson
    \/ MainReport

Spec == Init /\ [][Next]_vars

(*------------------- the methods called one at a time -------------------*)
(* A harness constructs one EduChainSetup, then repeatedly calls one       *)
(* method with arguments drawn from the sets above, may display and save   *)
(* what it returned, and clears its scratch files before the next call.    *)
InitApi == pc = "api_new" /\ InitCommon

ApiConstruct ==
    /\ pc = "api_new"
    /\ \E initOk \in BOOLEAN :
          LET r == setup_educhain(initOk)
          IN  /\ educhain' = r.value
              /\ log' = r.log
              /\ pc' = IF r.raised THEN "crashed" ELSE "api_ready"
    /\ UNCHANGED <<mcq_content, lesson_content, call, ret, files, stdout, steps>>

ApiGenerateMcq ==
    /\ pc = "api_ready"
    /\ \E topic \in Topics, num \in Nums, now \in Timestamps :
       \E b \in 1..Len(McqBehaviours(num)) :
          LET r == generate_mcq_content(educhain, topic, num, b, now)
          IN  /\ call' = [NoCall EXCEPT !.op = "generate_mcq_content", !.topic = topic,
                                        !.num = num,
                                        !.remote = CallQnaEngine(educhain, num, b)]
              /\ ret' = r.value
              /\ log' = r.log
              /\ stdout' = r.out
              /\ pc' = IF r.raised THEN "crashed" ELSE "api_returned"
    /\ UNCHANGED <<educhain, mcq_content, lesson_content, files, steps>>

ApiGenerateLesson ==
    /\ pc = "api_ready"
    /\ \E subject \in Topics, duration \in Durations, grade_level \in GradeLevels,
          now \in Timestamps :
       \E b \in 1..Len(LessonBehaviours(subject)) :
          LET r == generate_lesson_plan(educhain, subject, duration, grade_level, b, now)
          IN  /\ call' = [NoCall EXCEPT !.op = "generate_lesson_plan", !.topic = subject,
                                        !.duration = duration,
                                        !.grade_level = grade_level,
                                        !.remote = CallContentEngine(educhain, subject, b)]
              /\ ret' = r.value
              /\ log' = r.log
              /\ stdout' = r.out
              /\ pc' = IF r.raised THEN "crashed" ELSE "api_returned"
    /\ UNCHANGED <<educhain, mcq_content, lesson_content, files, steps>>

ApiFallbackMcqs ==
    /\ pc = "api_ready"
    /\ \E topic \in Topics, num \in Nums, now \in Timestamps :
          /\ call' = [NoCall EXCEPT !.op = "_generate_fallback_mcqs", !.topic = topic,
                                    !.num = num]
          /\ ret' = _generate_fallback_mcqs(topic, num, now)
    /\ log' = <<"INFO Generating fallback MCQs">>
    /\ stdout' = <<>>
    /\ pc' = "api_returned"
    /\ UNCHANGED <<educhain, mcq_content, lesson_content, files, steps>>

ApiFallbackLesson ==
    /\ pc = "api_ready"
    /\ \E subject \in Topics, duration \in Durations, grade_level \in GradeLevels,
          now \in Timestamps :
          /\ call' = [NoCall EXCEPT !.op = "_generate_fallback_lesson_plan",
                                    !.topic = subject, !.duration = duration,
                                    !.grade_level = grade_level]
          /\ ret' = _generate_fallback_lesson_plan(subject, duration, grade_level, now)
    /\ log' = <<"INFO Generating fallback lesson plan">>
    /\ stdout' = <<>>
    /\ pc' = "api_returned"
    /\ UNCHANGED <<educhain, mcq_content, lesson_content, files, steps>>

ApiDisplay ==
    /\ pc = "api_returned"
    /\ LET r == display_content(ret)
       IN  /\ stdout' = r.out
           /\ pc' = IF r.raised THEN "crashed" ELSE "api_displayed"
    /\ UNCHANGED <<educhain, mcq_content, lesson_content, call, ret, files, log, steps>>

ApiSave ==
    /\ pc \in {"api_returned", "api_displayed"}
    /\ \E path \in FileNames, k \in 1..Len(IoBehaviours) :
          LET r == save_content_to_file(ret, files[path], IoBehaviours[k])
          IN  /\ files' = [files EXCEPT ![path] = r.value]
              /\ log' = r.log
              /\ call' = [call EXCEPT !.io = IoBehaviours[k], !.path = path]
              /\ pc' = IF r.raised THEN "crashed" ELSE "api_saved"
    /\ UNCHANGED <<educhain, mcq_content, lesson_content, ret, stdout, steps>>

ApiReset ==
    /\ pc \in {"api_returned", "api_displayed", "api_saved"}
    /\ pc' = "api_ready"
    /\ call' = NoCall
    /\ ret' = None
    /\ files' = [f \in FileNames |-> NoFile]
    /\ log' = <<>>
    /\ stdout' = <<>>
    /\ UNCHANGED <<educhain, mcq_content, lesson_content, steps>>

NextApi ==
    \/ ApiConstruct
    \/ ApiGenerateMcq
    \/ ApiGenerateLesson
    \/ ApiFallbackMcqs
    \/ ApiFallbackLesson
    \/ ApiDisplay
    \/ ApiSave
    \/ ApiReset

SpecApi == InitApi /\ [][NextApi]_vars

----------------------------------------------------------------------------
(* What the claims are stated with.                                        *)

(* json.load of a token sequence: the value read, or a failure when the    *)
(* tokens are not one complete JSON text.  A repeated key keeps its first  *)
(* position and its last value, as a Python dict does.                     *)
Parsed(ok, value, next) == [ok |-> ok, value |-> value, next |-> next]
ParseFailure == Parsed(FALSE, None, 0)

SetKey(pairs, key, value) ==
    IF \E i \in 1..Len(pairs) : KeyEq(pairs[i][1], key)
    THEN [i \in 1..Len(pairs) |->
            IF KeyEq(pairs[i][1], key) THEN <<key, value>> ELSE pairs[i]]
    ELSE Append(pairs, <<key, value>>)

RECURSIVE ParseValue(_, _)
RECURSIVE ParseItems(_, _, _)
RECURSIVE ParseMembers(_, _, _)

ParseItems(toks, i, acc) ==
    LET one == ParseValue(toks, i)
    IN  IF ~one.ok \/ one.next > Len(toks) THEN ParseFailure
        ELSE IF IsPunct(toks[one.next], ",")
             THEN ParseItems(toks, one.next + 1, Append(acc, one.value))
        ELSE IF IsPunct(toks[one.next], "]")
             THEN Parsed(TRUE, L(Append(acc, one.value)), one.next + 1)
        ELSE ParseFailure

ParseMembers(toks, i, acc) ==
    IF i + 1 > Len(toks) \/ toks[i].k # "s" \/ ~IsPunct(toks[i + 1], ":") THEN ParseFailure
    ELSE LET one == ParseValue(toks, i + 2)
             now == IF one.ok THEN SetKey(acc, S(toks[i].v), one.value) ELSE acc
         IN  IF ~one.ok \/ one.next > Len(toks) THEN ParseFailure
             ELSE IF IsPunct(toks[one.next], ",")
                  THEN ParseMembers(toks, one.next + 1, now)
             ELSE IF IsPunct(toks[one.next], "}")
                  THEN Parsed(TRUE, D(now), one.next + 1)
             ELSE ParseFailure

ParseValue(toks, i) ==
    IF i > Len(toks) THEN ParseFailure
    ELSE CASE toks[i].k = "s" -> Parsed(TRUE, S(toks[i].v), i + 1)
           [] toks[i].k = "n" ->
                 (* the number whose decimal text the token holds *)
                 Parsed(TRUE,
                        I(CHOOSE n \in (0 - 100)..100 : ToString(n) = toks[i].v),
                        i + 1)
           [] toks[i].k = "null" -> Parsed(TRUE, None, i + 1)
           [] IsPunct(toks[i], "[") ->
                 IF i + 1 <= Len(toks) /\ IsPunct(toks[i + 1], "]")
                 THEN Parsed(TRUE, L(<<>>), i + 2)
                 ELSE ParseItems(toks, i + 1, <<>>)
           [] IsPunct(toks[i], "{") ->
                 IF i + 1 <= Len(toks) /\ IsPunct(toks[i + 1], "}")
                 THEN Parsed(TRUE, D(<<>>), i + 2)
                 ELSE ParseMembers(toks, i + 1, <<>>)
           [] OTHER -> ParseFailure

JsonLoad(file) ==
    IF ~file.exists THEN ParseFailure
    ELSE LET r == ParseValue(file.toks, 1)
         IN  IF r.ok /\ r.next = Len(file.toks) + 1 THEN r ELSE ParseFailure

(* Two values are structurally identical: same kinds, same scalars, same   *)
(* items and keys in the same order.                                       *)
RECURSIVE SameValue(_, _)
SameValue(a, b) ==
    /\ a.t = b.t
    /\ CASE a.t \in {"str", "int"} -> a.v = b.v
         [] a.t = "none" -> TRUE
         [] a.t = "list" ->
               /\ Len(a.v) = Len(b.v)
               /\ \A i \in 1..Len(a.v) : SameValue(a.v[i], b.v[i])
         [] a.t = "dict" ->
               /\ Len(a.v) = Len(b.v)
               /\ \A i \in 1..Len(a.v) :
                     /\ KeyEq(a.v[i][1], b.v[i][1])
                     /\ SameValue(a.v[i][2], b.v[i][2])
         [] a.t = "obj" -> FALSE

IsText(x, text) == x.t = "str" /\ x.v = text

GenerateOps == {"generate_mcq_content", "generate_lesson_plan"}
McqOps == {"generate_mcq_content", "_generate_fallback_mcqs"}
LessonOps == {"generate_lesson_plan", "_generate_fallback_lesson_plan"}

(* The remote-generation attempt of the recorded call raised: the remote   *)
(* call itself, or the post-processing of what it returned.                *)
AttemptRaised(c) ==
    \/ c.remote.raises
    \/ c.op = "generate_mcq_content" /\ McqPostProcessError(c.remote.value) # ""

ContentTypeOf(op) ==
    IF op \in McqOps THEN "multiple_choice_questions" ELSE "lesson_plan"

(* x is a fallback envelope of the content type of op.                     *)
IsFallbackEnvelope(x, op) ==
    /\ IsDict(x)
    /\ IsText(Get(x, "content_type", None), ContentTypeOf(op))
    /\ IsText(Get(x, "note", None), FallbackNote)

(* The recorded call went through the fallback of its content type.        *)
McqFallbackCall ==
    \/ call.op = "_generate_fallback_mcqs"
    \/ call.op = "generate_mcq_content" /\ AttemptRaised(call)
LessonFallbackCall ==
    \/ call.op = "_generate_fallback_lesson_plan"
    \/ call.op = "generate_lesson_plan" /\ AttemptRaised(call)

Questions(x) == Get(x, "questions", L(<<>>))
OptionTexts(q) ==
    LET o == Get(q, "options", L(<<>>)).v IN [j \in 1..Len(o) |-> o[j].v]
AnswerLetters == <<"A", "B", "C", "D">>

----------------------------------------------------------------------------
(* C1: for generate_mcq_content and generate_lesson_plan, whenever the     *)
(* remote-generation attempt raises (the remote call or the                *)
(* post-processing of its result), the method does not raise and returns   *)
(* the fallback envelope of its content type, with the fallback note.      *)
C1_FallbackOnFailure ==
    (call.op \in GenerateOps /\ AttemptRaised(call))
        => /\ pc # "crashed"
           /\ IsFallbackEnvelope(ret, call.op)

(* The remote call returned a value and its post-processing raised.        *)
C1_Witness ==
    /\ pc = "api_returned"
    /\ call.op = "generate_mcq_content"
    /\ ~call.remote.raises
    /\ McqPostProcessError(call.remote.value) = "TypeError"
    /\ IsFallbackEnvelope(ret, call.op)

(* C2: once the import has succeeded no exception propagates out of        *)
(* main(), whatever the remote service does.                               *)
C2_NothingPropagates == pc # "crashed"

(* C3: for num_questions >= 1, _generate_fallback_mcqs returns exactly     *)
(* min(num_questions, 5) questions, the first ones of the fixed list in    *)
(* their order (the first with answer "A" and its four list-creation       *)
(* options), each with exactly 4 options and an answer letter in A..D      *)
(* that indexes one of them.                                               *)
C3_FallbackMcqsPrefix ==
    (McqFallbackCall /\ call.num >= 1) =>
        LET qs == Questions(ret).v
        IN  /\ Len(qs) = PyMin(call.num, 5)
            /\ \A i \in 1..Len(qs) :
                  /\ SameValue(qs[i], python_questions[i])
                  /\ Len(OptionTexts(qs[i])) = 4
                  /\ \E j \in 1..Len(OptionTexts(qs[i])) :
                        AnswerLetters[j] = Get(qs[i], "correct_answer", None).v
            /\ IsText(Get(qs[1], "correct_answer", None), "A")
            /\ OptionTexts(qs[1]) =
                  <<"my_list = []", "my_list = ()", "my_list = {}", "my_list = <>">>

(* More questions asked for than the fixed list holds.                     *)
C3_Witness ==
    /\ pc = "api_returned"
    /\ call.op = "_generate_fallback_mcqs"
    /\ call.num > 5
    /\ Len(Questions(ret).v) = 5

(* C4: for every integer num_questions, 0 and negative ones included, the  *)
(* fallback result holds min(num_questions, 5) questions, none at all      *)
(* when num_questions <= 0.                                                *)
C4_FallbackMcqsTruncated ==
    McqFallbackCall =>
        Len(Questions(ret).v) = (IF call.num <= 0 THEN 0 ELSE PyMin(call.num, 5))

(* C5: whatever subject, duration and grade_level, the lesson_structure of *)
(* the fallback lesson plan holds exactly the phases introduction,         *)
(* main_content and conclusion, in that order, of 10, 25 and 10 minutes,   *)
(* which sum to 45.                                                        *)
MinutesOf(text) ==
    CASE text = "10 minutes" -> 10
      [] text = "25 minutes" -> 25
      [] text = "45 minutes" -> 45
      [] text = "90 minutes" -> 90
      [] OTHER -> 0

C5_ThreeFixedPhases ==
    LessonFallbackCall =>
        LET structure == Get(Get(ret, "lesson_plan", D(<<>>)), "lesson_structure", D(<<>>))
            phases == structure.v
            minutes == [i \in 1..Len(phases) |->
                          MinutesOf(Get(phases[i][2], "duration", S("")).v)]
        IN  /\ Len(phases) = 3
            /\ [i \in 1..3 |-> phases[i][1].v] = <<"introduction", "main_content", "conclusion">>
            /\ [i \in 1..3 |-> Get(phases[i][2], "duration", S("")).v]
                  = <<"10 minutes", "25 minutes", "10 minutes">>
            /\ minutes[1] + minutes[2] + minutes[3] = 45

(* A fallback lesson plan asked for with a duration other than 45 minutes. *)
C5_Witness ==
    /\ pc = "api_returned"
    /\ call.op = "_generate_fallback_lesson_plan"
    /\ call.duration = "90 minutes"
    /\ IsFallbackEnvelope(ret, call.op)

(* C6: for every envelope generate_mcq_content or generate_lesson_plan     *)
(* returns, after save_content_to_file on a writable path the file parses  *)
(* as JSON to a mapping structurally identical to the envelope.            *)
JustSaved == pc \in {"lesson_generate", "report", "api_saved"}

C6_SaveRoundTrip ==
    (JustSaved /\ call.op \in GenerateOps /\ call.io = "ok") =>
        LET parsed == JsonLoad(files[call.path])
        IN  parsed.ok /\ SameValue(parsed.value, ret)

(* C7: save_content_to_file never raises: a failed open or write is        *)
(* logged, the envelope in memory stays as it was, and main() goes on to   *)
(* its next step.                                                          *)
SavedWhole(file, content) ==
    LET e == Dump(content) IN e.ok /\ file = FileOf(e.toks)

C7_SaveNeverRaises ==
    [][/\ pc = "mcq_save" =>
            /\ pc' = "lesson_generate"
            /\ mcq_content' = mcq_content
            /\ lesson_content' = lesson_content
            /\ ~SavedWhole(files'["sample_mcqs.json"], mcq_content)
                  => log'[Len(log')] = "ERROR Error saving content to file"
       /\ pc = "lesson_save" =>
            /\ pc' = "report"
            /\ mcq_content' = mcq_content
            /\ lesson_content' = lesson_content
            /\ ~SavedWhole(files'["sample_lesson_plan.json"], lesson_content)
                  => log'[Len(log')] = "ERROR Error saving content to file"]_vars

(* The write of sample_mcqs.json failed, and the lesson plan was saved     *)
(* and the completion report reached all the same.                         *)
C7_Witness ==
    /\ pc = "done"
    /\ ~SavedWhole(files["sample_mcqs.json"], mcq_content)
    /\ \E i \in 1..Len(log) : log[i] = "ERROR Error saving content to file"
    /\ SavedWhole(files["sample_lesson_plan.json"], lesson_content)

(* C8: constructing EduChainSetup never raises; when the initialization    *)
(* fails the stub is substituted, and every later generate_mcq_content     *)
(* and generate_lesson_plan fails its remote attempt and returns the       *)
(* fallback envelope.                                                      *)
C8_StubAlwaysFallsBack ==
    /\ pc # "api_new" => educhain \in {"real", "mock"}
    /\ (pc = "crashed") => call.op # ""
    /\ (educhain = "mock" /\ call.op \in GenerateOps)
          => AttemptRaised(call) /\ IsFallbackEnvelope(ret, call.op)

C8_Witness ==
    /\ pc = "api_returned"
    /\ educhain = "mock"
    /\ call.op = "generate_lesson_plan"
    /\ IsFallbackEnvelope(ret, call.op)

(* C9: in every run of main() the steps are: construction, the MCQ         *)
(* pipeline (attempt, fallback only after a failed attempt, display,       *)
(* save), the lesson-plan pipeline likewise, the completion report; each   *)
(* pipeline attempts exactly once.                                         *)
ExpectedSteps(mcqFallback, lessonFallback) ==
    <<"construct", "mcq_attempt">>
    \o (IF mcqFallback THEN <<"mcq_fallback">> ELSE <<>>)
    \o <<"mcq_display", "mcq_save", "lesson_attempt">>
    \o (IF lessonFallback THEN <<"lesson_fallback">> ELSE <<>>)
    \o <<"lesson_display", "lesson_save", "report">>

IsPrefix(a, b) == Len(a) <= Len(b) /\ SubSeq(b, 1, Len(a)) = a

(* What holds of every run, ended or not: the steps taken so far are the   *)
(* beginning of the order.                                                 *)
StepsFollowTheOrder ==
    \E mf \in BOOLEAN, lf \in BOOLEAN : IsPrefix(steps, ExpectedSteps(mf, lf))

C9_EveryRunTakesAllSteps ==
    /\ StepsFollowTheOrder
    /\ pc \in {"done", "crashed"} =>
          \E mf \in BOOLEAN, lf \in BOOLEAN : steps = ExpectedSteps(mf, lf)

(* C10: in every envelope generate_mcq_content returns, num_questions is   *)
(* the number of questions held in questions.                              *)
NumberHeld(x) == IF Iterable(x) THEN Len(Items(x)) ELSE 0

C10_NumQuestionsIsCount ==
    (call.op = "generate_mcq_content" /\ IsDict(ret)) =>
        Get(ret, "num_questions", None).v = NumberHeld(Questions(ret))

====
